---- MODULE Spec2Model ----
(***************************************************************************)
(* Asphalt Companion backend (src/backend/run_app.py): the credential      *)
(* store, the token check, the car catalog, CSV match ingestion and the    *)
(* per-user statistics, as a state machine over the SQLite tables and the  *)
(* request handlers that the server's worker threads run concurrently.     *)
(*                                                                         *)
(* Text that the code parses (CSV fields, the token subject) is a sequence *)
(* of one-character strings, so that split/strip/int/float are computed.   *)
(* Names that the code only compares (usernames, car names, e-mails,       *)
(* passwords, tracks) are plain strings.                                   *)
(***************************************************************************)
EXTENDS Integers, Sequences, FiniteSets, TLC

VARIABLES
    up,          \* the server process is running (lines 210-214)
    seedResult,  \* what the last run of seed_cars did (line 202)
    users,       \* table users (lines 28-34), in id order
    cars,        \* table cars (lines 36-41), in id order
    matches,     \* table player_matches (lines 43-55), in id order
    th,          \* per worker thread: the handler it runs and the handler's
                 \* locals, its session's pending rows among them
    out          \* the answer sent last: request, and response or exception

vars == <<up, seedResult, users, cars, matches, th, out>>

(********************** bounds and inputs of the model *********************)
\* data rows of one uploaded file
MaxRows == 2
\* rows the player_matches table holds, in-flight sessions included
MaxMatches == 2

\* the server's worker threads, and what clients send
Workers == {"w1", "w2"}
Usernames == {"ann", "bob"}
Passwords == {"pw1", "pw2"}
NoEmail == "null"
Emails == {NoEmail, "a@x"}
NewCarNames == {"Zed", "Falcon GT"}

\* SQL NULL / Python None in an integer column (row ids start at 1)
NULL == 0

(******************************* text helpers ******************************)
Digits == <<"0", "1", "2", "3", "4", "5", "6", "7", "8", "9">>

IsDigit(c) == \E i \in 1..10 : Digits[i] = c

DigitVal(c) == (CHOOSE i \in 1..10 : Digits[i] = c) - 1

IsSpace(c) == c = " "

RECURSIVE lstrip(_)
lstrip(s) ==
    IF s # <<>> /\ IsSpace(Head(s)) THEN lstrip(Tail(s)) ELSE s

RECURSIVE rstrip(_)
rstrip(s) ==
    IF s # <<>> /\ IsSpace(s[Len(s)]) THEN rstrip(SubSeq(s, 1, Len(s) - 1)) ELSE s

\* str.strip()
strip(s) == rstrip(lstrip(s))

\* str.split(d): the segments between the delimiters, empty ones included
RECURSIVE split(_, _)
split(s, d) ==
    IF \A i \in 1..Len(s) : s[i] # d
    THEN <<s>>
    ELSE LET k == CHOOSE i \in 1..Len(s) :
                      s[i] = d /\ \A j \in 1..(i - 1) : s[j] # d
         IN  <<SubSeq(s, 1, k - 1)>> \o split(SubSeq(s, k + 1, Len(s)), d)

RECURSIVE NumeralValue(_)
NumeralValue(s) ==
    IF s = <<>> THEN 0
    ELSE 10 * NumeralValue(SubSeq(s, 1, Len(s) - 1)) + DigitVal(s[Len(s)])

IsNumeral(s) == s # <<>> /\ \A i \in 1..Len(s) : IsDigit(s[i])

Value(n) == [exc |-> "none", val |-> n]
Raise(e) == [exc |-> e]

\* int(x) of a str: surrounding whitespace is ignored, anything else that is
\* not a decimal numeral raises ValueError (signs are outside the model's text)
PyInt(s) ==
    IF IsNumeral(strip(s)) THEN Value(NumeralValue(strip(s))) ELSE Raise("ValueError")

\* float(x) of a str, on the numerals of the model (whole numbers of seconds)
PyFloat(s) ==
    IF IsNumeral(strip(s)) THEN Value(NumeralValue(strip(s))) ELSE Raise("ValueError")

\* str(n) of a non-negative int
RECURSIVE PyStr(_)
PyStr(n) ==
    IF n < 10 THEN <<Digits[n + 1]>> ELSE PyStr(n \div 10) \o <<Digits[(n % 10) + 1]>>

\* dict.get(key, default)
Get(row, key, default) == IF key \in DOMAIN row THEN row[key] ELSE default

Min(S) == CHOOSE x \in S : \A y \in S : x <= y

(****************************** the database *******************************)
\* Query.first() of a filter on one column: the row of lowest id, or none
FirstIndex(table, col, v) ==
    LET hits == {i \in 1..Len(table) : table[i][col] = v}
    IN  IF hits = {} THEN NULL ELSE Min(hits)

\* INSERT INTO users: unique(username), unique(email) (NULLs never collide)
UserInsertable(us, username, email) ==
    /\ \A i \in 1..Len(us) : us[i].username # username
    /\ email # NoEmail => \A i \in 1..Len(us) : us[i].email # email

\* INSERT INTO cars: unique(name)
CarInsertable(cs, name) == \A i \in 1..Len(cs) : cs[i].name # name

NewCar(cs, name) == [id |-> Len(cs) + 1, name |-> name]

(********************************* auth ************************************)
SECRET_KEY == "dev-secret-change-me"

\* HS256 over the payload: equal exactly when key and payload are equal
Sign(data, key) == <<key, data>>

get_password_hash(p) == <<"bcrypt", p>>

verify_password(plain, hashed) == hashed = get_password_hash(plain)

create_access_token(data) ==
    [wellformed |-> TRUE, payload |-> data, sig |-> Sign(data, SECRET_KEY)]

\* jose.jwt.decode: JWTError for a token that does not parse or whose
\* signature does not verify under the key; otherwise the payload
jwt_decode(token, key) ==
    IF ~token.wellformed THEN Raise("JWTError")
    ELSE IF token.sig # Sign(token.payload, key) THEN Raise("JWTError")
    ELSE Value(token.payload)

Http(status, detail) == [exc |-> "HTTPException", status |-> status, detail |-> detail]

\* as get_current_user, with the query not filtered by the subject
get_current_user_first(token, us) ==
    LET dec == jwt_decode(token, SECRET_KEY)
    IN  IF dec.exc = "JWTError" THEN Http(401, "Invalid token")
        ELSE IF "sub" \notin DOMAIN dec.val THEN Raise("TypeError")
        ELSE LET uid == PyInt(dec.val["sub"])
             IN  IF uid.exc # "none" THEN uid
                 ELSE IF uid.val \in 1..Len(us)
                      THEN [exc |-> "none", user |-> us[1]]
                      ELSE Http(401, "Invalid token")

\* lines 110-119: only JWTError is caught; int(None) raises TypeError and
\* int("x") ValueError
get_current_user(token, us) ==
    LET dec == jwt_decode(token, SECRET_KEY)
    IN  IF dec.exc = "JWTError" THEN Http(401, "Invalid token")
        ELSE IF "sub" \notin DOMAIN dec.val THEN Raise("TypeError")
        ELSE LET uid == PyInt(dec.val["sub"])
             IN  IF uid.exc # "none" THEN uid
                 ELSE IF uid.val \in 1..Len(us)
                      THEN [exc |-> "none", user |-> us[uid.val]]
                      ELSE Http(401, "Invalid token")

(**************************** what clients send ****************************)
UserIds == 1..(Cardinality(Usernames) + 1)

NoSub == [k \in {} |-> <<>>]

ClientTokens ==
    {create_access_token([sub |-> PyStr(i)]) : i \in UserIds}
    \cup {[wellformed |-> TRUE, payload |-> [sub |-> PyStr(1)],
           sig |-> Sign([sub |-> PyStr(1)], "guessed-key")]}
    \cup {[wellformed |-> FALSE]}
    \cup {create_access_token(NoSub)}
    \cup {create_access_token([sub |-> <<"x">>])}

(******************************** responses ********************************)
Ok(body) == [status |-> 200, body |-> body]

\* an HTTPException becomes its status; any other exception is a 500
ErrorResponse(e) ==
    IF e.exc = "HTTPException" THEN [status |-> e.status, detail |-> e.detail]
    ELSE [status |-> 500, detail |-> "Internal Server Error", exc |-> e.exc]

\* a worker thread between requests
Idle == [pc |-> "idle"]

\* the answer the process sent last: the request's input and the response
Answer(op, arg, resp) == [op |-> op, arg |-> arg, resp |-> resp]

NoAnswer == [op |-> "none"]

Accept(w) == up /\ th[w].pc = "idle"

(********************************* startup *********************************)
SampleNames == <<"Falcon GT", "Viper X">>

RECURSIVE AddCars(_, _)
AddCars(cs, names) ==
    IF names = <<>> THEN [exc |-> "none", cars |-> cs]
    ELSE IF ~CarInsertable(cs, Head(names)) THEN Raise("IntegrityError")
    ELSE AddCars(Append(cs, NewCar(cs, Head(names))), Tail(names))

\* as seed_cars, without the count == 0 guard
seed_cars_unguarded(cs) ==
    LET r == AddCars(cs, SampleNames)
    IN  IF r.exc = "none" THEN [cars |-> r.cars, result |-> "seeded"]
        ELSE [cars |-> cs, result |-> r.exc]

\* lines 186-200: the samples go in only when the table is empty; a failed
\* insert fails the commit, and the exception leaves the import
seed_cars(cs) ==
    IF Len(cs) = 0
    THEN LET r == AddCars(cs, SampleNames)
         IN  IF r.exc = "none" THEN [cars |-> r.cars, result |-> "seeded"]
             ELSE [cars |-> cs, result |-> r.exc]
    ELSE [cars |-> cs, result |-> "kept"]

\* the process (re)starts: module import runs seed_cars (line 202); requests in
\* flight are gone and their sessions, never committed, with them
Startup ==
    /\ LET r == seed_cars(cars)
       IN  /\ cars' = r.cars
           /\ seedResult' = r.result
           /\ up' = (r.result \in {"seeded", "kept"})
    /\ th' = [w \in Workers |-> Idle]
    /\ out' = NoAnswer
    /\ UNCHANGED <<users, matches>>

(******************************** register *********************************)
\* the row register stores for a username and password (lines 142-144)
StoredUser(us, name, email, pw) ==
    [id |-> Len(us) + 1, username |-> name, email |-> email,
     password_hash |-> get_password_hash(pw)]

\* line 140: the lookup; a hit answers 400 at once
RegisterQuery(w, payload) ==
    /\ Accept(w)
    /\ IF FirstIndex(users, "username", payload.username) # NULL
       THEN /\ out' = Answer("register", payload,
                             ErrorResponse(Http(400, "username taken")))
            /\ th' = th
       ELSE /\ th' = [th EXCEPT ![w] = [pc |-> "register", arg |-> payload]]
            /\ out' = out
    /\ UNCHANGED <<up, seedResult, users, cars, matches>>

\* lines 142-145: hash, INSERT, commit; the unique indexes decide
RegisterInsert(w) ==
    /\ up /\ th[w].pc = "register"
    /\ LET p == th[w].arg
           u == StoredUser(users, p.username, p.email, p.password)
       IN  IF UserInsertable(users, p.username, p.email)
           THEN /\ users' = Append(users, u)
                /\ out' = Answer("register", p,
                                 Ok([id |-> u.id, username |-> u.username]))
           ELSE /\ users' = users
                /\ out' = Answer("register", p,
                                 ErrorResponse(Raise("IntegrityError")))
    /\ th' = [th EXCEPT ![w] = Idle]
    /\ UNCHANGED <<up, seedResult, cars, matches>>

(********************************** login **********************************)
\* lines 148-153: the token carries str(user.id) as its subject
login(form, us) ==
    LET i == FirstIndex(us, "username", form.username)
    IN  IF i = NULL \/ ~verify_password(form.password, us[i].password_hash)
        THEN ErrorResponse(Http(401, "Bad credentials"))
        ELSE Ok([access_token |-> create_access_token([sub |-> PyStr(us[i].id)]),
                 token_type |-> "bearer"])

Login(w, form) ==
    /\ Accept(w)
    /\ out' = Answer("login", form, login(form, users))
    /\ UNCHANGED <<up, seedResult, users, cars, matches, th>>

(********************************* add_car *********************************)
\* lines 155-159: no lookup before the INSERT; the unique index on the name
\* fails the commit of a duplicate, and the exception is not caught
AddCar(w, name) ==
    /\ Accept(w)
    /\ IF CarInsertable(cars, name)
       THEN /\ cars' = Append(cars, NewCar(cars, name))
            /\ out' = Answer("add_car", name,
                             Ok([id |-> Len(cars) + 1, name |-> name]))
       ELSE /\ cars' = cars
            /\ out' = Answer("add_car", name,
                             ErrorResponse(Raise("IntegrityError")))
    /\ UNCHANGED <<up, seedResult, users, matches, th>>

(****************************** upload_matches *****************************)
\* line 176: [float(x) for x in segs if x.strip()]
RECURSIVE FloatList(_)
FloatList(segs) ==
    IF segs = <<>> THEN Value(<<>>)
    ELSE IF strip(Head(segs)) = <<>> THEN FloatList(Tail(segs))
    ELSE LET f == PyFloat(Head(segs))
             rest == FloatList(Tail(segs))
         IN  IF f.exc # "none" THEN f
             ELSE IF rest.exc # "none" THEN rest
             ELSE Value(<<f.val>> \o rest.val)

ParseLapTimes(row) == FloatList(split(Get(row, "lap_times", <<>>), ";"))

\* line 177: float(row.get("nitro_used", 0))
ParseNitro(row) ==
    IF "nitro_used" \in DOMAIN row THEN PyFloat(row["nitro_used"]) ELSE Value(0)

\* line 180: int(row.get("position", 0))
ParsePosition(row) ==
    IF "position" \in DOMAIN row THEN PyInt(row["position"]) ELSE Value(0)

\* as LookupCarId, with the query not filtered by the name
LookupCarIdUnfiltered(row, cs) == IF cs # <<>> THEN cs[1].id ELSE NULL

\* lines 178-179: Car.name == None compiles to IS NULL, and no car has a NULL name
LookupCarId(row, cs) ==
    IF "car_name" \in DOMAIN row THEN FirstIndex(cs, "name", row["car_name"]) ELSE NULL

\* lines 176-180: one row to a PlayerMatch, or the first exception raised
BuildMatch(row, uid, cs) ==
    LET laps == ParseLapTimes(row)
        nitro == ParseNitro(row)
        pos == ParsePosition(row)
    IN  IF laps.exc # "none" THEN laps
        ELSE IF nitro.exc # "none" THEN nitro
        ELSE IF pos.exc # "none" THEN pos
        ELSE Value([user_id |-> uid, car_id |-> LookupCarId(row, cs),
                    track |-> Get(row, "track", "null"), position |-> pos.val,
                    lap_times |-> laps.val,
                    telemetry |-> [nitro_used |-> nitro.val]])

AllColumns == {"track", "position", "lap_times", "nitro_used", "car_name"}

Headers == {AllColumns, {"track", "lap_times"}}

Row(pos, laps, nitro, car) ==
    [track |-> "alps", position |-> pos, lap_times |-> laps, nitro_used |-> nitro,
     car_name |-> car]

\* the data rows clients put in their files
FullRows ==
    { Row(<<"1">>, <<"6", ";", "5">>, <<"2">>, "Falcon GT"),
      Row(<<"3">>, <<" ", ";">>, <<" ", "2">>, "Zed"),
      Row(<<>>, <<"6", ";", "5">>, <<"2">>, "Falcon GT"),
      Row(<<"1">>, <<"6", ";", ";", " ", "a", ";", "5">>, <<"2">>, "Falcon GT"),
      Row(<<"1">>, <<"6", ";", "5">>, <<"x">>, "Falcon GT") }

Restrict(row, header) == [k \in header |-> row[k]]

RowsFor(header) == {Restrict(r, header) : r \in FullRows}

\* the request of an upload: the bearer token and the file, header and data rows
Upload(arg, rows) == [token |-> arg.token, header |-> arg.header, rows |-> rows]

\* rows added to sessions that have not committed yet
RECURSIVE PendingRows(_)
PendingRows(ws) ==
    IF ws = {} THEN 0
    ELSE LET w == CHOOSE x \in ws : TRUE
         IN  (IF th[w].pc = "upload" THEN Len(th[w].pending) ELSE 0)
             + PendingRows(ws \ {w})

InFlight == PendingRows(Workers)

\* lines 171-174: the token check, then the file is read
UploadBegin(w, token, header) ==
    /\ Accept(w)
    /\ LET cu == get_current_user(token, users)
           arg == [token |-> token, header |-> header]
       IN  IF cu.exc # "none"
           THEN /\ out' = Answer("upload", Upload(arg, <<>>), ErrorResponse(cu))
                /\ th' = th
           ELSE /\ th' = [th EXCEPT ![w] =
                            [pc |-> "upload", arg |-> arg, rows |-> <<>>,
                             user |-> cu.user.id, pending |-> <<>>, created |-> 0]]
                /\ out' = out
    /\ UNCHANGED <<up, seedResult, users, cars, matches>>

\* as FlushedByRow, with the commit inside the loop
FlushedByRowCommit(t, m) == <<m>>

\* line 181, db.add(m): what reaches the table before the commit of line 182.
\* The session does not autoflush (line 24) and the loop does not commit: nothing
FlushedByRow(t, m) == <<>>

\* lines 175-181: one pass of the loop over the reader; an exception leaves
\* the handler, and get_db closes the session with nothing flushed
UploadRow(w, row) ==
    /\ up /\ th[w].pc = "upload"
    /\ Len(th[w].rows) < MaxRows
    /\ Len(matches) + InFlight < MaxMatches
    /\ row \in RowsFor(th[w].arg.header)
    /\ LET m == BuildMatch(row, th[w].user, cars)
       IN  IF m.exc # "none"
           THEN /\ th' = [th EXCEPT ![w] = Idle]
                /\ out' = Answer("upload", Upload(th[w].arg, Append(th[w].rows, row)),
                                 ErrorResponse(m))
                /\ matches' = matches
           ELSE /\ th' = [th EXCEPT ![w].rows = Append(@, row),
                                    ![w].pending = Append(@, m.val),
                                    ![w].created = @ + 1]
                /\ out' = out
                /\ matches' = matches \o FlushedByRow(th[w], m.val)
    /\ UNCHANGED <<up, seedResult, users, cars>>

\* lines 182-183: the reader is exhausted; one commit inserts the session's rows
UploadCommit(w) ==
    /\ up /\ th[w].pc = "upload"
    /\ matches' = matches \o th[w].pending
    /\ out' = Answer("upload", Upload(th[w].arg, th[w].rows),
                     Ok([created |-> th[w].created]))
    /\ th' = [th EXCEPT ![w] = Idle]
    /\ UNCHANGED <<up, seedResult, users, cars>>

(******************************** user_stats *******************************)
\* as CountWins, with an unknown place (0) taken for a win
RECURSIVE CountWinsAtMost(_)
CountWinsAtMost(ms) ==
    IF ms = <<>> THEN 0
    ELSE (IF Head(ms).position <= 1 THEN 1 ELSE 0) + CountWinsAtMost(Tail(ms))

\* line 166
RECURSIVE CountWins(_)
CountWins(ms) ==
    IF ms = <<>> THEN 0
    ELSE (IF Head(ms).position = 1 THEN 1 ELSE 0) + CountWins(Tail(ms))

RECURSIVE SumPositions(_)
SumPositions(ms) ==
    IF ms = <<>> THEN 0 ELSE Head(ms).position + SumPositions(Tail(ms))

\* a / b of two ints, kept exact
Quotient(a, b) == [num |-> a, den |-> b]

None == [none |-> TRUE]

\* line 163: the user's rows
MatchesOf(uid, ms) == SelectSeq(ms, LAMBDA m : m.user_id = uid)

user_stats(uid, ms) ==
    LET mine == MatchesOf(uid, ms)
    IN  IF mine = <<>> THEN [matches |-> 0, wins |-> 0, avg_position |-> None]
        ELSE [matches |-> Len(mine), wins |-> CountWins(mine),
              avg_position |-> Quotient(SumPositions(mine), Len(mine))]

UserStats(w, uid) ==
    /\ Accept(w)
    /\ out' = Answer("user_stats", uid, Ok(user_stats(uid, matches)))
    /\ UNCHANGED <<up, seedResult, users, cars, matches, th>>

(***************************** the state machines **************************)
\* the tables as create_all leaves them, before the first start
Init ==
    /\ up = FALSE
    /\ seedResult = "not run"
    /\ users = <<>>
    /\ cars = <<>>
    /\ matches = <<>>
    /\ th = [w \in Workers |-> Idle]
    /\ out = NoAnswer

\* asphalt.db after ann and bob have registered in an earlier run
InitIngest ==
    /\ up = FALSE
    /\ seedResult = "not run"
    /\ users = LET ann == StoredUser(<<>>, "ann", "a@x", "pw1")
               IN  <<ann, StoredUser(<<ann>>, "bob", NoEmail, "pw2")>>
    /\ cars = <<>>
    /\ matches = <<>>
    /\ th = [w \in Workers |-> Idle]
    /\ out = NoAnswer

\* accounts and catalog: registration, login, add_car, restarts
NextAccounts ==
    \/ Startup
    \/ \E w \in Workers, n \in Usernames, e \in Emails, p \in Passwords :
          RegisterQuery(w, [username |-> n, email |-> e, password |-> p])
    \/ \E w \in Workers : RegisterInsert(w)
    \/ \E w \in Workers, n \in Usernames, p \in Passwords :
          Login(w, [username |-> n, password |-> p])
    \/ \E w \in Workers, name \in NewCarNames : AddCar(w, name)

\* tokens of the kind login hands out
IssuedTokens == {create_access_token([sub |-> PyStr(i)]) : i \in UserIds}

\* uploads and statistics of the registered users, on both worker threads
NextConcurrent ==
    \/ Startup
    \/ \E w \in Workers, t \in IssuedTokens : UploadBegin(w, t, AllColumns)
    \/ \E w \in Workers, r \in FullRows : UploadRow(w, r)
    \/ \E w \in Workers : UploadCommit(w)
    \/ \E w \in Workers, uid \in UserIds : UserStats(w, uid)

\* one worker thread, every token, header and row of the model
NextIngest ==
    \/ Startup
    \/ \E name \in NewCarNames : AddCar("w1", name)
    \/ \E t \in ClientTokens, h \in Headers : UploadBegin("w1", t, h)
    \/ \E h \in Headers : \E r \in RowsFor(h) : UploadRow("w1", r)
    \/ UploadCommit("w1")
    \/ \E uid \in UserIds : UserStats("w1", uid)

SpecAccounts == Init /\ [][NextAccounts]_vars

SpecConcurrent == InitIngest /\ [][NextConcurrent]_vars

SpecIngest == InitIngest /\ [][NextIngest]_vars

(******************************* properties ********************************)
Last(q) == q[Len(q)]

\* the user a token names: the number its subject spells
SubjectOf(token) == NumeralValue(token.payload["sub"])

\* the worker whose upload this step commits
Commits(w) ==
    /\ th[w].pc = "upload" /\ th'[w].pc = "idle"
    /\ out'.op = "upload" /\ out'.resp.status = 200

\* what C1 asks of one step
C1_Binding ==
    /\ \A w \in Workers : th'[w].pc = "upload" =>
          /\ th'[w].user = SubjectOf(th'[w].arg.token)
          /\ \A i \in 1..Len(th'[w].pending) :
                th'[w].pending[i].user_id = SubjectOf(th'[w].arg.token)
    /\ Len(matches') >= Len(matches)
    /\ SubSeq(matches', 1, Len(matches)) = matches
    /\ matches' # matches =>
          \E w \in Workers :
             /\ Commits(w)
             /\ \A i \in (Len(matches) + 1)..Len(matches') :
                   matches'[i].user_id = SubjectOf(th[w].arg.token)

\* C1: every record of an upload, in its session and in the table, carries the
\* user id that the call's validated token names, whatever the interleaving of
\* the workers: a step adds records to a user's history only by committing an
\* upload made with that user's token, and leaves the stored records as they are
C1_IdentityBinding == [][C1_Binding]_vars

\* two uploads of different users in flight together, each with a row added
C1_Witness ==
    /\ th["w1"].pc = "upload" /\ th["w2"].pc = "upload"
    /\ th["w1"].user # th["w2"].user
    /\ th["w1"].pending # <<>> /\ th["w2"].pending # <<>>

\* what C2 asks of one step
C2_Unit ==
    /\ matches' # matches =>
          \E w \in Workers :
             /\ Commits(w)
             /\ matches' = matches \o th[w].pending
             /\ Len(th[w].pending) = Len(th[w].rows)
             /\ out'.resp.body.created = Len(th[w].rows)
    /\ \A w \in Workers :
          (th[w].pc = "upload" /\ th'[w].pc = "idle" /\ ~Commits(w)) => matches' = matches
    /\ out'.op = "user_stats" =>
          out'.resp.body.matches =
             Cardinality({i \in 1..Len(matches') : matches'[i].user_id = out'.arg})

\* C2: an upload is one unit of work: the table changes only when an upload
\* commits, and then by all the rows of that call at once; an upload that
\* fails in its loop, or that a restart cuts short, stores nothing; a stats
\* query counts stored rows only, never the rows of a session in flight
C2_AtomicUpload == [][C2_Unit]_vars

\* a stats query answered while that user's upload holds two rows uncommitted
C2_Witness ==
    \E w \in Workers :
       /\ th[w].pc = "upload" /\ Len(th[w].pending) = 2
       /\ out.op = "user_stats" /\ out.arg = th[w].user
       /\ out.resp.body.matches = 0
       /\ matches = <<>>

\* the records the last answered upload stored: the tail of the table
StoredBatch ==
    SubSeq(matches, Len(matches) - Len(out.arg.rows) + 1, Len(matches))

UploadAnswered == out.op = "upload" /\ out.arg.rows # <<>>

\* login issues this token for a stored user
IssuedFor(token, u) == token = create_access_token([sub |-> PyStr(u.id)])

Issued(token) == \E i \in 1..Len(users) : IssuedFor(token, users[i])

\* C3: the token check lets an upload in exactly when its token is one that
\* login issues for a stored user, as that user; every other token is
\* answered 401 "Invalid token" with nothing read from the file
C3_TokenGate ==
    /\ \A w \in Workers : th[w].pc = "upload" =>
          \E i \in 1..Len(users) :
             IssuedFor(th[w].arg.token, users[i]) /\ th[w].user = users[i].id
    /\ out.op = "upload" =>
          IF Issued(out.arg.token) THEN out.resp.status # 401
          ELSE /\ out.resp.status = 401
               /\ out.resp.detail = "Invalid token"
               /\ out.arg.rows = <<>>

\* the row's position and nitro_used fields are absent or numbers
NumbersParse(row) ==
    /\ "position" \in DOMAIN row => PyInt(row["position"]).exc = "none"
    /\ "nitro_used" \in DOMAIN row => PyFloat(row["nitro_used"]).exc = "none"

\* the lap times a field holds: the values of the segments that are numbers
ExpectedLaps(row) ==
    LET segs == split(Get(row, "lap_times", <<>>), ";")
        nums == SelectSeq(segs, LAMBDA x : PyFloat(x).exc = "none")
    IN  [i \in 1..Len(nums) |-> PyFloat(nums[i]).val]

\* every segment of the lap_times field is blank or a number
LapsParse(row) ==
    LET segs == split(Get(row, "lap_times", <<>>), ";")
    IN  \A i \in 1..Len(segs) : strip(segs[i]) = <<>> \/ PyFloat(segs[i]).exc = "none"

\* C4: a row whose other fields are sound is stored, with the lap times that
\* parse, in input order, whatever else its lap_times field holds, and the
\* call answers 200
C4_LapTimes ==
    /\ \A w \in Workers : th[w].pc = "upload" =>
          \A i \in 1..Len(th[w].pending) :
             th[w].pending[i].lap_times = ExpectedLaps(th[w].rows[i])
    /\ (/\ UploadAnswered
        /\ NumbersParse(Last(out.arg.rows))) =>
          /\ out.resp.status = 200
          /\ \A i \in 1..Len(out.arg.rows) :
                StoredBatch[i].lap_times = ExpectedLaps(out.arg.rows[i])

\* the number a field holds, 0 when it is absent, empty or no number
ExpectedPosition(row) ==
    IF "position" \in DOMAIN row /\ PyInt(row["position"]).exc = "none"
    THEN PyInt(row["position"]).val ELSE 0

ExpectedNitro(row) ==
    IF "nitro_used" \in DOMAIN row /\ PyFloat(row["nitro_used"]).exc = "none"
    THEN PyFloat(row["nitro_used"]).val ELSE 0

\* C5: a row whose lap times are sound is stored whatever its position and
\* nitro_used fields hold, with 0 for a field that is absent, empty or no
\* number, and the call answers 200
C5_FieldDefaults ==
    (UploadAnswered /\ LapsParse(Last(out.arg.rows))) =>
       /\ out.resp.status = 200
       /\ \A i \in 1..Len(out.arg.rows) :
             /\ StoredBatch[i].position = ExpectedPosition(out.arg.rows[i])
             /\ StoredBatch[i].telemetry.nitro_used = ExpectedNitro(out.arg.rows[i])

\* the id of the catalog car of that exact name, NULL when there is none
ExpectedCar(row) ==
    IF "car_name" \in DOMAIN row /\ \E i \in 1..Len(cars) : cars[i].name = row["car_name"]
    THEN (CHOOSE c \in {cars[i] : i \in 1..Len(cars)} : c.name = row["car_name"]).id
    ELSE NULL

\* C6: each record's car_id is the id of the catalog car named by the row's
\* car_name, NULL when the name is unknown or the column absent; an upload
\* that fails has a row with a field other than car_name that does not parse;
\* an upload that succeeds counts and stores every row
C6_CarReference ==
    /\ \A w \in Workers : th[w].pc = "upload" =>
          /\ Len(th[w].pending) = Len(th[w].rows)
          /\ th[w].created = Len(th[w].rows)
          /\ \A i \in 1..Len(th[w].pending) :
                th[w].pending[i].car_id = ExpectedCar(th[w].rows[i])
    /\ (UploadAnswered /\ out.resp.status # 200) =>
          ~(LapsParse(Last(out.arg.rows)) /\ NumbersParse(Last(out.arg.rows)))
    /\ (UploadAnswered /\ out.resp.status = 200) =>
          /\ out.resp.body.created = Len(out.arg.rows)
          /\ \A i \in 1..Len(out.arg.rows) :
                StoredBatch[i].car_id = ExpectedCar(out.arg.rows[i])

\* an upload answered 200 whose row names a car the catalog lacks
C6_Witness ==
    /\ UploadAnswered /\ out.resp.status = 200
    /\ \E i \in 1..Len(out.arg.rows) :
          /\ Get(out.arg.rows[i], "car_name", "null") = "Zed"
          /\ \A j \in 1..Len(cars) : cars[j].name # "Zed"
          /\ StoredBatch[i].car_id = NULL
    /\ out.resp.body.created = Len(out.arg.rows)

RECURSIVE SumOver(_)
SumOver(I) ==
    IF I = {} THEN 0
    ELSE LET i == CHOOSE x \in I : TRUE IN matches[i].position + SumOver(I \ {i})

\* C7: a stats answer counts the stored records of that user, counts as wins
\* those of position 1, and gives the mean of all their positions, or null
\* for a user without records; other users' records play no part
C7_Stats ==
    out.op = "user_stats" =>
       LET mine == {i \in 1..Len(matches) : matches[i].user_id = out.arg}
           body == out.resp.body
       IN  /\ out.resp.status = 200
           /\ body.matches = Cardinality(mine)
           /\ body.wins = Cardinality({i \in mine : matches[i].position = 1})
           /\ IF mine = {} THEN body.avg_position = None
              ELSE /\ body.avg_position.den > 0
                   /\ body.avg_position.num * Cardinality(mine)
                         = SumOver(mine) * body.avg_position.den

\* stats of a user with a win and an unknown place, beside another user's record
C7_Witness ==
    /\ out.op = "user_stats"
    /\ out.resp.body.matches = 2 /\ out.resp.body.wins = 1
    /\ \E i \in 1..Len(matches) : matches[i].user_id = out.arg /\ matches[i].position = 0
    /\ out.resp.body.avg_position.num = 1 /\ out.resp.body.avg_position.den = 2

UsernameStored(name) == \E i \in 1..Len(users) : users[i].username = name

\* C8: a register call for a username that a stored user has is answered 400
\* "username taken", whatever its e-mail and password, also when the other
\* call stored the name while this one was running; no two users share a name
C8_DuplicateUsername ==
    /\ \A i, j \in 1..Len(users) : users[i].username = users[j].username => i = j
    /\ (/\ out.op = "register"
        /\ out.resp.status # 200
        /\ UsernameStored(out.arg.username)) =>
          /\ out.resp.status = 400
          /\ out.resp.detail = "username taken"

\* a successful add_car appends one car of a new name
AddsOneCar ==
    /\ out'.op = "add_car" /\ out'.resp.status = 200
    /\ Len(cars') = Len(cars) + 1
    /\ SubSeq(cars', 1, Len(cars)) = cars
    /\ \A i \in 1..Len(cars) : cars[i].name # Last(cars').name

\* C9: seeding never fails and never leaves two cars of one name, however
\* restarts and add_car calls alternate; a populated catalog changes only by
\* add_car, so a later run of the seeder leaves it as it is
C9_SeedIdempotent ==
    /\ [](/\ seedResult \in {"not run", "seeded", "kept"}
          /\ \A i, j \in 1..Len(cars) : cars[i].name = cars[j].name => i = j)
    /\ [][(cars # <<>> /\ cars' # cars) => AddsOneCar]_vars

\* the seeder has run on a catalog that holds the samples and an added car
C9_Witness ==
    /\ seedResult = "kept"
    /\ Len(cars) = Len(SampleNames) + 1
    /\ \A i \in 1..Len(SampleNames) : cars[i].name = SampleNames[i]

\* C10: add_car answers a name the catalog has with a structured duplicate
\* error, not a server error, and a new name with 200 and the car's id and name
C10_DuplicateVehicle ==
    out.op = "add_car" =>
       IF out.resp.status = 200
       THEN /\ out.resp.body.name = out.arg
            /\ cars[out.resp.body.id].name = out.arg
       ELSE /\ out.resp.status \in 400..499
            /\ out.resp.detail = "DuplicateVehicle"

====
